---- MODULE Spec2Model ----
(***************************************************************************)
(* Model of src/utils/ValidationStrategies.js: the four field validation   *)
(* strategies, the composite TaskValidator and the debouncing              *)
(* RealTimeValidator.                                                       *)
(*                                                                         *)
(* JavaScript values are records [kind, str, num]:                         *)
(*   kind = "null" | "undefined" | "object"                                *)
(*   kind = "string"  str is the sequence of its characters                *)
(*   kind = "number"  num is its value                                     *)
(* Instants are counted in hours, and days in days, from                   *)
(* 2024-01-01T00:00Z.                                                      *)
(***************************************************************************)
EXTENDS Integers, Sequences, FiniteSets, TLC

VARIABLES
    debounceTimers,  \* RealTimeValidator.debounceTimers: fieldName -> handle (0: no entry)
    timers,          \* the runtime's timer table, indexed by handle
    callbackLog,     \* the callback invocations made so far, in order
    uncaught,        \* handles of the timers whose function threw
    clears,          \* number of clearTimers() calls so far
    lastOp,          \* the operation that ran last
    now,             \* current instant (hours since the epoch, UTC)
    tz,              \* local offset from UTC, in hours
    input,           \* argument of a validator call
    output           \* what that call produced

vars == <<debounceTimers, timers, callbackLog, uncaught, clears, lastOp,
          now, tz, input, output>>

rtvVars == <<debounceTimers, timers, callbackLog, uncaught, clears, lastOp>>

(***************************************************************************)
(* Bounds of the model.                                                    *)
(***************************************************************************)
MaxStrLen == 3
MaxTimers == 3
MaxClears == 2
MaxDueDay == 5
TaskDueDays == 3
ClockDays == 2
MaxOffsetWest == 12
MaxOffsetEast == 14

(***************************************************************************)
(* Program constants.                                                      *)
(***************************************************************************)
TitleMinLength == 1
TitleMaxLength == 100
DescriptionMaxLength == 500

(***************************************************************************)
(* JavaScript values.                                                      *)
(***************************************************************************)
Null == [kind |-> "null", str |-> <<>>, num |-> 0]
Undefined == [kind |-> "undefined", str |-> <<>>, num |-> 0]
Obj == [kind |-> "object", str |-> <<>>, num |-> 0]
Str(s) == [kind |-> "string", str |-> s, num |-> 0]
Num(n) == [kind |-> "number", str |-> <<>>, num |-> n]

IsString(v) == v.kind = "string"

\* !v
Falsy(v) ==
    \/ v.kind \in {"null", "undefined"}
    \/ v.kind = "string" /\ v.str = <<>>
    \/ v.kind = "number" /\ v.num = 0

\* obj.key of a plain object: undefined when the key is missing
Get(obj, key) == IF key \in DOMAIN obj THEN obj[key] ELSE Undefined

\* the text of a character sequence
RECURSIVE Text(_)
Text(s) == IF s = <<>> THEN "" ELSE Head(s) \o Text(Tail(s))

Repeat(c, n) == [i \in 1..n |-> c]

(***************************************************************************)
(* String helpers.                                                         *)
(***************************************************************************)
IsWhitespace(c) == c = " "

RECURSIVE TrimStart(_)
TrimStart(s) ==
    IF s # <<>> /\ IsWhitespace(Head(s)) THEN TrimStart(Tail(s)) ELSE s

RECURSIVE TrimEnd(_)
TrimEnd(s) ==
    IF s # <<>> /\ IsWhitespace(s[Len(s)])
    THEN TrimEnd(SubSeq(s, 1, Len(s) - 1))
    ELSE s

\* String.prototype.trim
trim(s) == TrimEnd(TrimStart(s))

LowerOf(c) ==
    CASE c = "H" -> "h"
      [] c = "I" -> "i"
      [] c = "G" -> "g"
      [] c = "L" -> "l"
      [] c = "O" -> "o"
      [] c = "W" -> "w"
      [] OTHER -> c

\* String.prototype.toLowerCase
toLowerCase(s) == [i \in 1..Len(s) |-> LowerOf(s[i])]

\* text.replace(/ch/g, rep): every occurrence of the character is replaced
\* (the text is split in halves, which keeps the evaluation shallow)
RECURSIVE ReplaceAll(_, _, _)
ReplaceAll(text, ch, rep) ==
    IF Len(text) = 0 THEN <<>>
    ELSE IF Len(text) = 1
    THEN (IF text[1] = ch THEN rep ELSE <<text[1]>>)
    ELSE LET half == Len(text) \div 2
         IN  ReplaceAll(SubSeq(text, 1, half), ch, rep)
             \o ReplaceAll(SubSeq(text, half + 1, Len(text)), ch, rep)

\* /<[^>]*>/.test(text): a "<", then characters other than ">", then a ">"
MatchesTag(text) ==
    \E i \in 1..Len(text) : \E j \in (i + 1)..Len(text) :
        /\ text[i] = "<"
        /\ text[j] = ">"
        /\ \A k \in (i + 1)..(j - 1) : text[k] # ">"

(***************************************************************************)
(* Field validation results.                                               *)
(***************************************************************************)
Returned(isValid, errors, hasSanitized, sanitizedValue) ==
    [outcome |-> "return", isValid |-> isValid, errors |-> errors,
     hasSanitized |-> hasSanitized, sanitizedValue |-> sanitizedValue]

\* a TypeError raised by calling a string method on a non-string
Threw ==
    [outcome |-> "throw", isValid |-> FALSE, errors |-> <<>>,
     hasSanitized |-> FALSE, sanitizedValue |-> Undefined]

(***************************************************************************)
(* TitleValidationStrategy                                                 *)
(***************************************************************************)
TitleContainsHtml(text) == MatchesTag(text)

\* mutant: an ampersand that already starts an entity is left alone
RECURSIVE TitleSanitize_KeepsEntities(_)
TitleSanitize_KeepsEntities(text) ==
    IF text = <<>> THEN <<>>
    ELSE IF Head(text) = "&" /\ Len(text) >= 2 /\ text[2] \in {"a", "l", "g", "q", "#"}
    THEN <<"&">> \o TitleSanitize_KeepsEntities(Tail(text))
    ELSE (CASE Head(text) = "&" -> <<"&", "a", "m", "p", ";">>
            [] Head(text) = "<" -> <<"&", "l", "t", ";">>
            [] Head(text) = ">" -> <<"&", "g", "t", ";">>
            [] Head(text) = "\"" -> <<"&", "q", "u", "o", "t", ";">>
            [] Head(text) = "'" -> <<"&", "#", "x", "2", "7", ";">>
            [] OTHER -> <<Head(text)>>)
         \o TitleSanitize_KeepsEntities(Tail(text))

TitleSanitize(text) ==
    ReplaceAll(
      ReplaceAll(
        ReplaceAll(
          ReplaceAll(
            ReplaceAll(text, "&", <<"&", "a", "m", "p", ";">>),
            "<", <<"&", "l", "t", ";">>),
          ">", <<"&", "g", "t", ";">>),
        "\"", <<"&", "q", "u", "o", "t", ";">>),
      "'", <<"&", "#", "x", "2", "7", ";">>)

\* mutant: an empty title skips the remaining checks
TitleErrors_StopsWhenEmpty(trimmedTitle) ==
    IF Len(trimmedTitle) = 0
    THEN <<"Title cannot be empty or only whitespace">>
    ELSE (IF Len(trimmedTitle) < TitleMinLength
            THEN <<"Title must be at least " \o ToString(TitleMinLength)
                   \o " character(s)">>
            ELSE <<>>)
         \o (IF Len(trimmedTitle) > TitleMaxLength
               THEN <<"Title must be no more than " \o ToString(TitleMaxLength)
                      \o " characters">>
               ELSE <<>>)
         \o (IF MatchesTag(trimmedTitle)
               THEN <<"Title cannot contain HTML tags">> ELSE <<>>)

TitleErrors(trimmedTitle) ==
    (IF Len(trimmedTitle) = 0
       THEN <<"Title cannot be empty or only whitespace">> ELSE <<>>)
    \o (IF Len(trimmedTitle) < TitleMinLength
          THEN <<"Title must be at least " \o ToString(TitleMinLength)
                 \o " character(s)">>
          ELSE <<>>)
    \o (IF Len(trimmedTitle) > TitleMaxLength
          THEN <<"Title must be no more than " \o ToString(TitleMaxLength)
                 \o " characters">>
          ELSE <<>>)
    \o (IF TitleContainsHtml(trimmedTitle)
          THEN <<"Title cannot contain HTML tags">> ELSE <<>>)

TitleValidate(title) ==
    IF Falsy(title)
    THEN Returned(FALSE, <<"Title is required">>, FALSE, Undefined)
    ELSE IF ~IsString(title) THEN Threw
    ELSE LET trimmedTitle == trim(title.str)
             errors == TitleErrors(trimmedTitle)
         IN  Returned(Len(errors) = 0, errors, TRUE,
                      Str(TitleSanitize(trimmedTitle)))

(***************************************************************************)
(* DescriptionValidationStrategy                                           *)
(***************************************************************************)
DescriptionContainsHtml(text) == MatchesTag(text)

\* mutant: the quote characters are not escaped
DescriptionSanitize_NoQuotes(text) ==
    ReplaceAll(
      ReplaceAll(
        ReplaceAll(text, "&", <<"&", "a", "m", "p", ";">>),
        "<", <<"&", "l", "t", ";">>),
      ">", <<"&", "g", "t", ";">>)

DescriptionSanitize(text) ==
    ReplaceAll(
      ReplaceAll(
        ReplaceAll(
          ReplaceAll(
            ReplaceAll(text, "&", <<"&", "a", "m", "p", ";">>),
            "<", <<"&", "l", "t", ";">>),
          ">", <<"&", "g", "t", ";">>),
        "\"", <<"&", "q", "u", "o", "t", ";">>),
      "'", <<"&", "#", "x", "2", "7", ";">>)

DescriptionErrors(trimmedDescription) ==
    (IF Len(trimmedDescription) > DescriptionMaxLength
       THEN <<"Description must be no more than "
              \o ToString(DescriptionMaxLength) \o " characters">>
       ELSE <<>>)
    \o (IF DescriptionContainsHtml(trimmedDescription)
          THEN <<"Description cannot contain HTML tags">> ELSE <<>>)

DescriptionValidate(description) ==
    IF Falsy(description)
    THEN Returned(TRUE, <<>>, TRUE, Str(<<>>))
    ELSE IF ~IsString(description) THEN Threw
    ELSE LET trimmedDescription == trim(description.str)
             errors == DescriptionErrors(trimmedDescription)
         IN  Returned(Len(errors) = 0, errors, TRUE,
                      Str(DescriptionSanitize(trimmedDescription)))

(***************************************************************************)
(* PriorityValidationStrategy                                              *)
(***************************************************************************)
validPriorities ==
    << <<"h", "i", "g", "h">>, <<"m", "e", "d", "i", "u", "m">>,
       <<"l", "o", "w">> >>

\* array.join(sep)
RECURSIVE Join(_, _)
Join(array, sep) ==
    IF array = <<>> THEN ""
    ELSE IF Len(array) = 1 THEN Text(array[1])
    ELSE Text(array[1]) \o sep \o Join(Tail(array), sep)

\* array.includes(x)
Includes(array, x) == \E i \in 1..Len(array) : array[i] = x

\* mutant: an absent priority gets no default
PriorityValidate_NoDefault(priority) ==
    IF Falsy(priority)
    THEN Returned(TRUE, <<>>, TRUE, Null)
    ELSE IF ~IsString(priority) THEN Threw
    ELSE LET normalizedPriority == trim(toLowerCase(priority.str))
             errors ==
                 IF ~Includes(validPriorities, normalizedPriority)
                 THEN <<"Priority must be one of: "
                        \o Join(validPriorities, ", ")>>
                 ELSE <<>>
         IN  Returned(Len(errors) = 0, errors, TRUE, Str(normalizedPriority))

PriorityValidate(priority) ==
    IF Falsy(priority)
    THEN Returned(TRUE, <<>>, TRUE, Str(<<"m", "e", "d", "i", "u", "m">>))
    ELSE IF ~IsString(priority) THEN Threw
    ELSE LET normalizedPriority == trim(toLowerCase(priority.str))
             errors ==
                 IF ~Includes(validPriorities, normalizedPriority)
                 THEN <<"Priority must be one of: "
                        \o Join(validPriorities, ", ")>>
                 ELSE <<>>
         IN  Returned(Len(errors) = 0, errors, TRUE, Str(normalizedPriority))

(***************************************************************************)
(* Dates: the Date constructor, setHours and toISOString.                  *)
(***************************************************************************)
HoursPerDay == 12 + 12
MsPerHour == 60 * 60 * 1000
\* 1970-01-01 counted from 2024-01-01: 54 years, 13 of them leap years
UnixEpochDay == 0 - (54 * 365 + 13)

Digit(n) == ToString(n)

\* the YYYY-MM-DD text of a day: December 2023, January 2024, or the Unix epoch
DateText(day) ==
    IF day = UnixEpochDay
    THEN <<"1", "9", "7", "0", "-", "0", "1", "-", "0", "1">>
    ELSE IF day < 0
    THEN <<"2", "0", "2", "3", "-", "1", "2", "-",
           Digit((day + 32) \div 10), Digit((day + 32) % 10)>>
    ELSE <<"2", "0", "2", "4", "-", "0", "1", "-",
           Digit((day + 1) \div 10), Digit((day + 1) % 10)>>

KnownDays == {UnixEpochDay} \cup (0 - 31)..30

\* a date-only string value
DateStr(day) == Str(DateText(day))

InvalidDate == [valid |-> FALSE, time |-> 0]
DateAt(time) == [valid |-> TRUE, time |-> time]

\* new Date(value): a date-only ISO string is midnight UTC of its day, a
\* number is milliseconds since the Unix epoch, anything else the model
\* supplies (text that is no date, a plain object) is an Invalid Date
NewDate(value) ==
    IF value.kind = "string"
    THEN IF \E d \in KnownDays : DateText(d) = value.str
         THEN DateAt((CHOOSE d \in KnownDays : DateText(d) = value.str)
                     * HoursPerDay)
         ELSE InvalidDate
    ELSE IF value.kind = "number"
    THEN DateAt(UnixEpochDay * HoursPerDay + (value.num \div MsPerHour))
    ELSE InvalidDate

\* date.setHours(0, 0, 0, 0): midnight of the date's local calendar day
SetHoursZero(time, offset) ==
    ((time + offset) \div HoursPerDay) * HoursPerDay - offset

\* date.toISOString().split('T')[0]: the UTC calendar day
ToISODate(time) == DateText(time \div HoursPerDay)

(***************************************************************************)
(* DueDateValidationStrategy                                               *)
(***************************************************************************)
DueDateValidate(dueDate, clock, offset) ==
    IF Falsy(dueDate)
    THEN Returned(TRUE, <<>>, TRUE, Null)
    ELSE LET date == NewDate(dueDate)
             startOfToday == SetHoursZero(clock, offset)
             errors ==
                 IF date.time < startOfToday
                 THEN <<"Due date must be today or in the future">>
                 ELSE <<>>
         IN  IF ~date.valid
             THEN Returned(FALSE, <<"Due date must be a valid date">>,
                           FALSE, Undefined)
             ELSE Returned(Len(errors) = 0, errors, TRUE,
                           Str(ToISODate(date.time)))

(***************************************************************************)
(* TaskValidator                                                           *)
(***************************************************************************)
\* the field names, in the order the result objects get their keys
FieldOrder == <<"title", "description", "priority", "dueDate">>
Fields == {FieldOrder[i] : i \in 1..Len(FieldOrder)}

\* Object.keys(results): insertion order
ObjectKeys(results) == SelectSeq(FieldOrder, LAMBDA f : f \in DOMAIN results)

\* `${field}: ${error}` for each error of one field
RECURSIVE PrefixErrors(_, _)
PrefixErrors(field, errors) ==
    IF errors = <<>> THEN <<>>
    ELSE <<field \o ": " \o Head(errors)>> \o PrefixErrors(field, Tail(errors))

\* mutant: the collection stops at the first failed field
CollectErrors_FailFast(results, keys) ==
    LET failed == SelectSeq(keys, LAMBDA f : ~results[f].isValid)
    IN  IF failed = <<>> THEN <<>>
        ELSE PrefixErrors(failed[1], results[failed[1]].errors)

\* the forEach that fills allErrors
RECURSIVE CollectErrors(_, _)
CollectErrors(results, keys) ==
    IF keys = <<>> THEN <<>>
    ELSE (IF ~results[Head(keys)].isValid
            THEN PrefixErrors(Head(keys), results[Head(keys)].errors)
            ELSE <<>>)
         \o CollectErrors(results, Tail(keys))

\* mutant: every field that has a sanitized value is copied, valid or not
CollectSanitized_IgnoresValidity(results) ==
    [f \in {k \in DOMAIN results : results[k].hasSanitized}
        |-> results[f].sanitizedValue]

\* the forEach that fills sanitizedData
CollectSanitized(results) ==
    [f \in {k \in DOMAIN results : results[k].isValid}
        |-> results[f].sanitizedValue]

AnyThrew(results) == \E f \in DOMAIN results : results[f].outcome = "throw"

\* the exception of a field validator leaves the method
TaskThrew ==
    [outcome |-> "throw", isValid |-> FALSE, errors |-> <<>>,
     fieldResults |-> <<>>, sanitizedData |-> <<>>]

TaskReturned(allErrors, results, sanitizedData) ==
    [outcome |-> "return", isValid |-> Len(allErrors) = 0,
     errors |-> allErrors, fieldResults |-> results,
     sanitizedData |-> sanitizedData]

ValidateFieldOf(field, value, clock, offset) ==
    CASE field = "title" -> TitleValidate(value)
      [] field = "description" -> DescriptionValidate(value)
      [] field = "priority" -> PriorityValidate(value)
      [] field = "dueDate" -> DueDateValidate(value, clock, offset)

\* the results object literal of validateTask: all four validators run
TaskResults(taskData, clock, offset) ==
    [f \in Fields |-> ValidateFieldOf(f, Get(taskData, f), clock, offset)]

\* mutant: the errors are collected over the keys of taskData
validateTask_KeysOfInput(taskData, clock, offset) ==
    LET results == TaskResults(taskData, clock, offset)
    IN  IF AnyThrew(results) THEN TaskThrew
        ELSE TaskReturned(CollectErrors(results, ObjectKeys(taskData)),
                          results, CollectSanitized(results))

validateTask(taskData, clock, offset) ==
    LET results == TaskResults(taskData, clock, offset)
    IN  IF AnyThrew(results) THEN TaskThrew
        ELSE TaskReturned(CollectErrors(results, ObjectKeys(results)),
                          results, CollectSanitized(results))

\* updates.hasOwnProperty(field)
HasOwnProperty(obj, key) == key \in DOMAIN obj

\* mutant: a field is validated when its value is truthy
UpdateResults_Truthy(updates, clock, offset) ==
    [f \in {k \in Fields : HasOwnProperty(updates, k) /\ ~Falsy(updates[k])}
        |-> ValidateFieldOf(f, updates[f], clock, offset)]

\* the four guarded assignments of validateTaskUpdate
UpdateResults(updates, clock, offset) ==
    [f \in {k \in Fields : HasOwnProperty(updates, k)}
        |-> ValidateFieldOf(f, updates[f], clock, offset)]

\* the single forEach of validateTaskUpdate: errors of a failed field, or
\* else its sanitized value
RECURSIVE UpdateCollect(_, _, _)
UpdateCollect(results, keys, acc) ==
    IF keys = <<>> THEN acc
    ELSE LET field == Head(keys)
             next ==
                 IF ~results[field].isValid
                 THEN [acc EXCEPT !.allErrors =
                          @ \o PrefixErrors(field, results[field].errors)]
                 ELSE [acc EXCEPT !.sanitizedData =
                          [k \in DOMAIN @ \cup {field} |->
                              IF k = field THEN results[field].sanitizedValue
                              ELSE @[k]]]
         IN  UpdateCollect(results, Tail(keys), next)

validateTaskUpdate(updates, clock, offset) ==
    LET results == UpdateResults(updates, clock, offset)
        collected == UpdateCollect(results, ObjectKeys(results),
                                   [allErrors |-> <<>>, sanitizedData |-> <<>>])
    IN  IF AnyThrew(results) THEN TaskThrew
        ELSE TaskReturned(collected.allErrors, results,
                          collected.sanitizedData)

(***************************************************************************)
(* Inputs.                                                                 *)
(***************************************************************************)
Alphabet == {"a", " ", "&", "<", ">", "\"", "'"}

Strings(maxLen) == UNION {[1..n -> Alphabet] : n \in 0..maxLen}

PriorityTexts ==
    { <<"h", "i", "g", "h">>, <<"m", "e", "d", "i", "u", "m">>,
      <<"l", "o", "w">>, <<"H", "i", "g", "h">>, <<" ", "L", "O", "W", " ">>,
      <<"u", "r", "g", "e", "n", "t">> }

LongTexts ==
    { Repeat("a", TitleMaxLength), Repeat("a", TitleMaxLength + 1),
      Repeat("a", DescriptionMaxLength), Repeat("a", DescriptionMaxLength + 1) }

NonStrings == {Null, Undefined, Num(0), Num(42), Obj}

\* what a single strategy is called with
StrategyInputs ==
    {Str(t) : t \in Strings(MaxStrLen) \cup PriorityTexts \cup LongTexts}
    \cup NonStrings

\* the clock: two days of hours from 2024-01-03T00:00Z, every local offset
ClockHours == {2 * HoursPerDay + h : h \in 0..(ClockDays * HoursPerDay - 1)}
Offsets == (0 - MaxOffsetWest)..MaxOffsetEast

LocalDay(clock, offset) == (clock + offset) \div HoursPerDay

DueDateInputs ==
    {DateStr(d) : d \in (0 - 1)..MaxDueDay}
    \cup {Str(<<>>), Str(<<"a">>)} \cup NonStrings

\* what the task objects hold under each key (a key may also be missing)
TaskFieldInputs(field) ==
    CASE field = "title" ->
           {Null, Str(<<>>), Str(<<"a">>), Str(<<" ", " ">>), Str(<<"&">>),
            Str(<<"<", "a", ">">>), Str(Repeat("a", TitleMaxLength + 1)),
            Num(42), Str(<<">", "\"", "<">>)}
      [] field = "description" ->
           {Undefined, Str(<<"a">>), Str(<<"'">>), Str(<<"<", ">">>), Obj,
            Str(<<"<", " ", "&">>)}
      [] field = "priority" ->
           {Null, Str(<<>>), Str(<<"h", "i", "g", "h">>),
            Str(<<" ", "L", "O", "W", " ">>),
            Str(<<"u", "r", "g", "e", "n", "t">>), Num(42)}
      [] field = "dueDate" ->
           {Null, Str(<<"a">>), Num(42), Obj}
           \cup {DateStr(d) : d \in 1..TaskDueDays}

Missing == [kind |-> "missing", str |-> <<>>, num |-> 0]

\* the object literal with the keys that are not Missing
ObjectOf(title, description, priority, dueDate) ==
    LET all == [f \in Fields |->
                   CASE f = "title" -> title
                     [] f = "description" -> description
                     [] f = "priority" -> priority
                     [] f = "dueDate" -> dueDate]
    IN  [f \in {k \in Fields : all[k] # Missing} |-> all[f]]

TaskObjects ==
    { ObjectOf(t, d, p, u) :
        t \in TaskFieldInputs("title") \cup {Missing},
        d \in TaskFieldInputs("description") \cup {Missing},
        p \in TaskFieldInputs("priority") \cup {Missing},
        u \in TaskFieldInputs("dueDate") \cup {Missing} }

TaskClockHours == {2 * HoursPerDay + 1, 3 * HoursPerDay - 1}
TaskOffsets == {0 - 5, 7}

(***************************************************************************)
(* RealTimeValidator                                                       *)
(***************************************************************************)
RtvFields == {"title", "dueDate", "notes"}
RtvValues == {Str(<<"a">>), Num(42)}
\* "cb" only takes the result; "again" also calls validateField for its field
Callbacks == {"cb", "again"}

\* the validateField calls made from outside
\* (an unknown field gets the same result whatever the value)
RtvCalls ==
    {<<f, v, "cb">> : f \in RtvFields \ {"notes"}, v \in RtvValues}
    \cup {<<"notes", Str(<<"a">>), "cb">>, <<"title", Str(<<"a">>), "again">>}

NoTimers == [f \in RtvFields |-> 0]

\* clearTimeout(handle): a pending timer is cancelled, any other is left alone
ClearTimeout(table, handle) ==
    IF table[handle].state = "pending"
    THEN [table EXCEPT ![handle].state = "cancelled"]
    ELSE table

Pending == {h \in 1..Len(timers) : timers[h].state = "pending"}

\* constructor(validator)
RtvInit ==
    /\ debounceTimers = NoTimers
    /\ timers = <<>>
    /\ callbackLog = <<>>
    /\ uncaught = {}
    /\ clears = 0
    /\ lastOp = "constructor"

PendingIn(table) == {h \in 1..Len(table) : table[h].state = "pending"}

\* mutant: the field's earlier timer is not cancelled
Scheduled_NoCancel(table, mapping, fieldName, value, callback, origin) ==
    [timers |->
        Append(table,
               [fieldName |-> fieldName, value |-> value,
                callback |-> callback, state |-> "pending",
                epoch |-> clears,
                replaced |-> 0,
                pendingWith |-> PendingIn(table),
                origin |-> origin]),
     debounceTimers |-> [mapping EXCEPT ![fieldName] = Len(table) + 1]]

\* the body of validateField: the field's earlier timer is cleared, the new
\* one is set and stored under the field's name
Scheduled(table, mapping, fieldName, value, callback, origin) ==
    LET old == mapping[fieldName]
    IN  [timers |->
            Append(IF old # 0 THEN ClearTimeout(table, old) ELSE table,
                   [fieldName |-> fieldName, value |-> value,
                    callback |-> callback, state |-> "pending",
                    epoch |-> clears,
                    replaced |-> IF old # 0 /\ table[old].state = "pending"
                                 THEN old ELSE 0,
                    pendingWith |-> PendingIn(table) \ {old},
                    origin |-> origin]),
         debounceTimers |-> [mapping EXCEPT ![fieldName] = Len(table) + 1]]

\* validateField(fieldName, value, callback, delay)
validateField(fieldName, value, callback) ==
    LET next == Scheduled(timers, debounceTimers, fieldName, value, callback,
                          "caller")
    IN  /\ Len(timers) < MaxTimers
        /\ timers' = next.timers
        /\ debounceTimers' = next.debounceTimers
        /\ lastOp' = "validateField"
        /\ UNCHANGED <<callbackLog, uncaught, clears, now, tz, input, output>>

\* the switch of the timer function
TimerResult(fieldName, value, clock, offset) ==
    CASE fieldName = "title" -> TitleValidate(value)
      [] fieldName = "description" -> DescriptionValidate(value)
      [] fieldName = "priority" -> PriorityValidate(value)
      [] fieldName = "dueDate" -> DueDateValidate(value, clock, offset)
      [] OTHER -> Returned(TRUE, <<>>, FALSE, Undefined)

\* the runtime runs the function of a pending timer; the callback "again"
\* calls validateField for its field before it returns
TimerFires(handle) ==
    LET t == timers[handle]
        result == TimerResult(t.fieldName, t.value, now, tz)
        fired == [timers EXCEPT ![handle].state = "fired"]
        again == Scheduled(fired, debounceTimers, t.fieldName, t.value, "cb",
                           "callback")
    IN  /\ t.state = "pending"
        /\ IF result.outcome = "throw"
           THEN /\ uncaught' = uncaught \cup {handle}
                /\ timers' = fired
                /\ UNCHANGED <<callbackLog, debounceTimers>>
           ELSE /\ callbackLog' =
                     Append(callbackLog,
                            [callback |-> t.callback, fieldName |-> t.fieldName,
                             result |-> result, handle |-> handle,
                             clears |-> clears])
                /\ IF t.callback = "again" /\ Len(timers) < MaxTimers
                   THEN /\ timers' = again.timers
                        /\ debounceTimers' = again.debounceTimers
                   ELSE /\ timers' = fired
                        /\ UNCHANGED debounceTimers
                /\ UNCHANGED uncaught
        /\ lastOp' = "timer"
        /\ UNCHANGED <<clears, now, tz, input, output>>

\* Object.values(this.debounceTimers)
ObjectValues(obj) == {obj[f] : f \in {k \in DOMAIN obj : obj[k] # 0}}

RECURSIVE ClearAll(_, _)
ClearAll(table, handles) ==
    IF handles = {} THEN table
    ELSE LET h == CHOOSE x \in handles : TRUE
         IN  ClearAll(ClearTimeout(table, h), handles \ {h})

\* mutant: the mapping is reset without cancelling the timers
clearTimers_OnlyResets ==
    /\ clears < MaxClears
    /\ debounceTimers' = NoTimers
    /\ clears' = clears + 1
    /\ lastOp' = "clearTimers"
    /\ UNCHANGED <<timers, callbackLog, uncaught, now, tz, input, output>>

\* mutant: the timers are cancelled but the mapping is kept
clearTimers_KeepsMapping ==
    /\ clears < MaxClears
    /\ timers' = ClearAll(timers, ObjectValues(debounceTimers))
    /\ clears' = clears + 1
    /\ lastOp' = "clearTimers"
    /\ UNCHANGED <<debounceTimers, callbackLog, uncaught, now, tz, input,
                   output>>

\* mutant: only one of the mapping's timers is cancelled
clearTimers_FirstOnly ==
    /\ clears < MaxClears
    /\ timers' =
          IF ObjectValues(debounceTimers) = {} THEN timers
          ELSE ClearTimeout(timers,
                            CHOOSE h \in ObjectValues(debounceTimers) :
                                \A g \in ObjectValues(debounceTimers) : h <= g)
    /\ debounceTimers' = NoTimers
    /\ clears' = clears + 1
    /\ lastOp' = "clearTimers"
    /\ UNCHANGED <<callbackLog, uncaught, now, tz, input, output>>

\* clearTimers()
clearTimers ==
    /\ clears < MaxClears
    /\ timers' = ClearAll(timers, ObjectValues(debounceTimers))
    /\ debounceTimers' = NoTimers
    /\ clears' = clears + 1
    /\ lastOp' = "clearTimers"
    /\ UNCHANGED <<callbackLog, uncaught, now, tz, input, output>>

NoCall == [op |-> "none"]

Init ==
    /\ RtvInit
    /\ now = 2 * HoursPerDay
    /\ tz = 7
    /\ input = Null
    /\ output = NoCall

Next ==
    \/ \E c \in RtvCalls : validateField(c[1], c[2], c[3])
    \/ \E h \in 1..Len(timers) : TimerFires(h)
    \/ clearTimers

Spec == Init /\ [][Next]_vars

(***************************************************************************)
(* The strategies, called once each on one input.                          *)
(***************************************************************************)
Call(op, result) ==
    /\ output = NoCall
    /\ output' = [op |-> op, result |-> result]
    /\ UNCHANGED <<rtvVars, now, tz, input>>

TitleValidateCall == Call("title.validate", TitleValidate(input))
DescriptionValidateCall ==
    Call("description.validate", DescriptionValidate(input))
PriorityValidateCall == Call("priority.validate", PriorityValidate(input))
TitleSanitizeCall ==
    /\ IsString(input)
    /\ Call("title.sanitize", TitleSanitize(input.str))
DescriptionSanitizeCall ==
    /\ IsString(input)
    /\ Call("description.sanitize", DescriptionSanitize(input.str))

InitStrategies ==
    /\ RtvInit
    /\ now = 2 * HoursPerDay
    /\ tz = 0
    /\ input \in StrategyInputs
    /\ output = NoCall

NextStrategies ==
    \/ TitleValidateCall
    \/ DescriptionValidateCall
    \/ PriorityValidateCall
    \/ TitleSanitizeCall
    \/ DescriptionSanitizeCall

SpecStrategies == InitStrategies /\ [][NextStrategies]_vars

(***************************************************************************)
(* The due-date strategy under every clock.                                *)
(***************************************************************************)
DueDateValidateCall ==
    Call("dueDate.validate", DueDateValidate(input, now, tz))

InitDueDate ==
    /\ RtvInit
    /\ now \in ClockHours
    /\ tz \in Offsets
    /\ input \in DueDateInputs
    /\ output = NoCall

NextDueDate == DueDateValidateCall

SpecDueDate == InitDueDate /\ [][NextDueDate]_vars

(***************************************************************************)
(* The TaskValidator, called once on one object.                           *)
(***************************************************************************)
ValidateTaskCall == Call("validateTask", validateTask(input, now, tz))
ValidateTaskUpdateCall ==
    Call("validateTaskUpdate", validateTaskUpdate(input, now, tz))

InitTask ==
    /\ RtvInit
    /\ now \in TaskClockHours
    /\ tz \in TaskOffsets
    /\ input \in TaskObjects
    /\ output = NoCall

NextTask == ValidateTaskCall \/ ValidateTaskUpdateCall

SpecTask == InitTask /\ [][NextTask]_vars

(***************************************************************************)
(* Properties of the RealTimeValidator (specification Spec).               *)
(***************************************************************************)
\* the callback invocations made for the timers in a set of handles
InvocationsOf(handles) ==
    {i \in 1..Len(callbackLog) : callbackLog[i].handle \in handles}

\* the timer's callback ran exactly once, with the result of its own value
InvokedOnceWithOwnValue(h) ==
    /\ Cardinality(InvocationsOf({h})) = 1
    /\ \A i \in InvocationsOf({h}) :
          /\ callbackLog[i].fieldName = timers[h].fieldName
          /\ callbackLog[i].callback = timers[h].callback
          /\ callbackLog[i].result =
                TimerResult(timers[h].fieldName, timers[h].value, now, tz)

\* C1: when a validateField call for a field replaces the still pending timer
\* of an earlier call for that field and the new timer has fired, the callback
\* has been invoked exactly once for the two calls, with the validation result
\* of the second value.
C1_DebounceCollapsing ==
    \A h2 \in 1..Len(timers) :
        (timers[h2].replaced # 0 /\ timers[h2].state = "fired") =>
            /\ InvocationsOf({timers[h2].replaced}) = {}
            /\ InvokedOnceWithOwnValue(h2)

\* C2: no callback is invoked for a validateField call made before a
\* clearTimers call once that clearTimers has returned (every invocation
\* happened with as many clearTimers calls made as when its timer was set, and
\* no timer set before the last clearTimers is still pending), and right after
\* clearTimers the mapping is empty and nothing is pending.
C2_ClearTimersSilences ==
    /\ \A i \in 1..Len(callbackLog) :
          timers[callbackLog[i].handle].epoch = callbackLog[i].clears
    /\ \A h \in Pending : timers[h].epoch = clears
    /\ lastOp = "clearTimers" => (debounceTimers = NoTimers /\ Pending = {})

\* a clearTimers call has just cancelled a timer that was pending
C2_Witness ==
    /\ lastOp = "clearTimers"
    /\ \E h \in 1..Len(timers) :
          /\ timers[h].state = "cancelled"
          /\ \A g \in 1..Len(timers) : timers[g].replaced # h

\* C3: a validateField call never cancels the timer of another field, and
\* when the timers of two different fields were pending together and both
\* have fired, each callback has been invoked exactly once, with the result of
\* its own field's value.
C3_PerFieldIndependence ==
    /\ \A h \in 1..Len(timers) :
          timers[h].replaced # 0 =>
              timers[timers[h].replaced].fieldName = timers[h].fieldName
    /\ \A h, g \in 1..Len(timers) :
          ( /\ h \in timers[g].pendingWith
            /\ timers[h].fieldName # timers[g].fieldName
            /\ timers[h].state = "fired"
            /\ timers[g].state = "fired" )
          => (InvokedOnceWithOwnValue(h) /\ InvokedOnceWithOwnValue(g))

\* C12 as claimed: every entry of the mapping is the handle of a timer that
\* is still pending.
C12_MappingOnlyPending ==
    \A f \in RtvFields :
        debounceTimers[f] # 0 => timers[debounceTimers[f]].state = "pending"

\* C12 as amended: every entry of the mapping is the handle of the timer set
\* last for its field, which is pending or has already fired and was set
\* after the last clearTimers, never a cancelled one; and every pending timer
\* is the entry of its field.
C12_MappingLatestTimers ==
    /\ \A f \in RtvFields :
          debounceTimers[f] # 0 =>
              /\ timers[debounceTimers[f]].fieldName = f
              /\ timers[debounceTimers[f]].state \in {"pending", "fired"}
              /\ timers[debounceTimers[f]].epoch = clears
              /\ \A g \in (debounceTimers[f] + 1)..Len(timers) :
                    timers[g].fieldName # f
    /\ \A h \in Pending : debounceTimers[timers[h].fieldName] = h

\* the mapping still holds the handle of a timer that has fired
C12_Witness ==
    \E f \in RtvFields :
        /\ debounceTimers[f] # 0
        /\ timers[debounceTimers[f]].state = "fired"

\* what one clearTimers call does to the timers: the pending ones become
\* cancelled, the others stay as they are
ClearedBy(before, after) ==
    /\ Len(after) = Len(before)
    /\ \A h \in 1..Len(before) :
          after[h] =
              IF before[h].state = "pending"
              THEN [before[h] EXCEPT !.state = "cancelled"]
              ELSE before[h]

\* C13: clearTimers can always be called; it leaves an empty mapping and no
\* pending timer of any field, and it invokes no callback; called with
\* nothing pending, or right after another clearTimers, it changes neither
\* the timers nor the mapping.
C13_ClearTimersIdempotent ==
    /\ [](clears < MaxClears => ENABLED clearTimers)
    /\ [][clears' = clears + 1 =>
            /\ debounceTimers' = NoTimers
            /\ ClearedBy(timers, timers')
            /\ PendingIn(timers') = {}
            /\ callbackLog' = callbackLog /\ uncaught' = uncaught
            /\ Pending = {} => timers' = timers
            /\ lastOp = "clearTimers" =>
                  (timers' = timers /\ debounceTimers' = debounceTimers)
         ]_vars

\* clearTimers has run twice in a row, after it cancelled the pending timers
\* of two fields at once
C13_Witness ==
    /\ clears >= 2
    /\ lastOp = "clearTimers"
    /\ \A h \in 1..Len(timers) : timers[h].epoch = 0
    /\ \E h, g \in 1..Len(timers) :
          /\ timers[h].fieldName # timers[g].fieldName
          /\ timers[h].state = "cancelled" /\ timers[g].state = "cancelled"
          /\ \A k \in 1..Len(timers) : timers[k].replaced \notin {h, g}

\* C15: every field name has at most one pending timer.
C15_OnePendingPerField ==
    \A f \in RtvFields :
        Cardinality({h \in Pending : timers[h].fieldName = f}) <= 1

\* a timer set from inside a callback, after a clearTimers, is pending
C15_Witness ==
    \E h \in Pending :
        /\ timers[h].origin = "callback"
        /\ timers[h].epoch >= 1

\* C16: once the timer of a validateField call has run (the call was not
\* followed by another call for its field nor by clearTimers before that),
\* the callback has been invoked with the field name and the validation
\* result of the call's value.
C16_EventualFeedback ==
    \A h \in 1..Len(timers) :
        timers[h].state = "fired" => InvokedOnceWithOwnValue(h)

(***************************************************************************)
(* Properties of the TaskValidator (specification SpecTask).               *)
(***************************************************************************)
TaskCalled == output.op \in {"validateTask", "validateTaskUpdate"}
TaskReturnedResult == TaskCalled /\ output.result.outcome = "return"

\* the fields the call validated
Validated ==
    IF output.op = "validateTask" THEN Fields ELSE DOMAIN input

\* the keys of an aggregate's object that belong to the four field names
KeysOf(obj) == {f \in Fields : f \in DOMAIN obj}

WrongTyped(v) == ~Falsy(v) /\ ~IsString(v)

\* C4: validateTask and validateTaskUpdate raise no exception, and a
\* wrong-typed value of a validated field is reported as a failed field with
\* entries in errors.
C4_NeverThrows ==
    TaskCalled =>
        /\ output.result.outcome = "return"
        /\ \A f \in Validated :
              WrongTyped(Get(input, f)) =>
                  /\ ~output.result.fieldResults[f].isValid
                  /\ output.result.errors # <<>>

\* C5: sanitizedData has a key for a field exactly when the field was
\* validated and its field result is valid.
C5_SanitizedOnlyValid ==
    TaskReturnedResult =>
        \A f \in Fields :
            f \in DOMAIN output.result.sanitizedData
            <=> ( /\ f \in Validated
                  /\ f \in DOMAIN output.result.fieldResults
                  /\ output.result.fieldResults[f].isValid )

\* a returned aggregate with a failed field left out and a valid field kept
C5_Witness ==
    /\ TaskReturnedResult
    /\ \E f \in KeysOf(output.result.fieldResults) :
          /\ ~output.result.fieldResults[f].isValid
          /\ output.result.fieldResults[f].hasSanitized
    /\ \E f \in KeysOf(output.result.fieldResults) :
          /\ output.result.fieldResults[f].isValid
          /\ f \in DOMAIN output.result.sanitizedData

\* C6: the aggregate isValid is true exactly when every field result is
\* valid, and the aggregate errors are empty exactly then.
C6_ValidIffAllValid ==
    TaskReturnedResult =>
        LET allValid ==
                \A f \in KeysOf(output.result.fieldResults) :
                    output.result.fieldResults[f].isValid
        IN  /\ output.result.isValid <=> allValid
            /\ (output.result.errors = <<>>) <=> allValid

\* a returned aggregate that is invalid because of one field only
C6_Witness ==
    /\ TaskReturnedResult
    /\ ~output.result.isValid
    /\ Cardinality({f \in KeysOf(output.result.fieldResults) :
                       ~output.result.fieldResults[f].isValid}) = 1

\* C7: validateTaskUpdate returns fieldResults whose keys are exactly the
\* keys present in updates, whatever their values; for the empty object it
\* returns isValid true, no errors and no field results.
C7_UpdateScope ==
    (output.op = "validateTaskUpdate" /\ output.result.outcome = "return") =>
        /\ KeysOf(output.result.fieldResults) = KeysOf(input)
        /\ KeysOf(input) = {} =>
              /\ output.result.isValid
              /\ output.result.errors = <<>>
              /\ KeysOf(output.result.sanitizedData) = {}

\* an update with a falsy value under a key, which was validated all the same
C7_Witness ==
    /\ output.op = "validateTaskUpdate"
    /\ output.result.outcome = "return"
    /\ \E f \in KeysOf(input) :
          /\ Falsy(input[f])
          /\ f \in KeysOf(output.result.fieldResults)
    /\ KeysOf(input) # Fields

\* the lines the aggregate owes to one field: the errors of that field's own
\* result, each behind "<field>: ", when the field was validated and failed
ErrorLinesOf(f) ==
    IF f \in KeysOf(output.result.fieldResults)
       /\ ~output.result.fieldResults[f].isValid
    THEN [i \in 1..Len(output.result.fieldResults[f].errors) |->
             f \o ": " \o output.result.fieldResults[f].errors[i]]
    ELSE <<>>

\* C11: the aggregate errors are the errors of the failed fields in the order
\* title, description, priority, dueDate, each field's errors in their own
\* order behind "<field>: ", and every field result is what the field's
\* validator returns for that field's value alone.
C11_ErrorsCompleteAndOrdered ==
    TaskReturnedResult =>
        /\ output.result.errors =
              ErrorLinesOf("title") \o ErrorLinesOf("description")
              \o ErrorLinesOf("priority") \o ErrorLinesOf("dueDate")
        /\ \A f \in Validated :
              output.result.fieldResults[f] =
                  ValidateFieldOf(f, Get(input, f), now, tz)

\* validateTask has returned with a title that failed two checks and a
\* failed due date
C11_Witness ==
    /\ output.op = "validateTask"
    /\ output.result.outcome = "return"
    /\ Len(output.result.fieldResults["title"].errors) = 2
    /\ ~output.result.fieldResults["dueDate"].isValid
    /\ Len(output.result.errors) >= 3

\* C14: for an absent priority (null, undefined, empty or missing) validateTask
\* gets from the priority validator a valid result whose sanitized value is
\* "medium", and sanitizedData.priority is "medium".
C14_PriorityDefault ==
    (output.op = "validateTask" /\ output.result.outcome = "return"
        /\ Get(input, "priority") \in {Null, Undefined, Str(<<>>)}) =>
        /\ output.result.fieldResults["priority"] =
              Returned(TRUE, <<>>, TRUE, Str(<<"m", "e", "d", "i", "u", "m">>))
        /\ "priority" \in DOMAIN output.result.sanitizedData
        /\ Text(output.result.sanitizedData["priority"].str) = "medium"

\* validateTask has returned for task data without a priority key
C14_Witness ==
    /\ output.op = "validateTask"
    /\ output.result.outcome = "return"
    /\ "priority" \notin DOMAIN input
    /\ "priority" \in DOMAIN output.result.sanitizedData

RawChars == {"<", ">", "\"", "'"}
TextFields == {"title", "description"}

\* C17: a title or description in sanitizedData holds none of the raw
\* characters < > " ', and comes from no input that holds an HTML tag pattern.
C17_StorageSafety ==
    TaskReturnedResult =>
        \A f \in TextFields \cap DOMAIN output.result.sanitizedData :
            /\ IsString(output.result.sanitizedData[f])
            /\ \A i \in 1..Len(output.result.sanitizedData[f].str) :
                  output.result.sanitizedData[f].str[i] \notin RawChars
            /\ ~(IsString(Get(input, f)) /\ MatchesTag(Get(input, f).str))

\* an accepted description whose input holds a raw character
C17_Witness ==
    /\ TaskReturnedResult
    /\ "description" \in DOMAIN output.result.sanitizedData
    /\ "description" \in DOMAIN input
    /\ IsString(input["description"])
    /\ \E i \in 1..Len(input["description"].str) :
          input["description"].str[i] \in RawChars

(***************************************************************************)
(* Properties of the strategies (specification SpecStrategies).            *)
(***************************************************************************)
OnlyWhitespace(v) ==
    /\ IsString(v)
    /\ v.str # <<>>
    /\ \A i \in 1..Len(v.str) : IsWhitespace(v.str[i])

\* C8 as claimed: a non-empty title of whitespace only gets exactly one
\* error, "Title cannot be empty or only whitespace".
C8_WhitespaceOneError ==
    (output.op = "title.validate" /\ OnlyWhitespace(input)) =>
        output.result.errors = <<"Title cannot be empty or only whitespace">>

\* C8 as amended: a non-empty title of whitespace only gets exactly two
\* errors, "Title cannot be empty or only whitespace" and then "Title must be
\* at least 1 character(s)"; the maximum-length and HTML checks add none.
C8_WhitespaceTwoErrors ==
    (output.op = "title.validate" /\ OnlyWhitespace(input)) =>
        /\ output.result.outcome = "return"
        /\ ~output.result.isValid
        /\ output.result.errors =
              <<"Title cannot be empty or only whitespace",
                "Title must be at least 1 character(s)">>

\* the title validator has run on a title of two or more blanks
C8_Witness ==
    /\ output.op = "title.validate"
    /\ OnlyWhitespace(input)
    /\ Len(input.str) >= 2

SpecialChars == {"&", "<", ">", "\"", "'"}
HasSpecial(text) == \E i \in 1..Len(text) : text[i] \in SpecialChars

\* the input is a valid title (description) and sanitize has been applied
SanitizedValidTitle ==
    output.op = "title.sanitize" /\ TitleValidate(input).isValid
SanitizedValidDescription ==
    output.op = "description.sanitize" /\ DescriptionValidate(input).isValid

\* C9 as claimed: sanitizing a valid, tag-free title or description twice
\* gives the same text as sanitizing it once.
C9_SanitizeIdempotent ==
    /\ SanitizedValidTitle => TitleSanitize(output.result) = output.result
    /\ SanitizedValidDescription =>
          DescriptionSanitize(output.result) = output.result

\* C9 as amended: for a valid, tag-free title or description, sanitizing
\* twice gives the same text as sanitizing once exactly when the text holds
\* none of the characters & < > " ' (and then sanitizing leaves it as it is).
C9_SanitizeIdempotentIffPlain ==
    /\ SanitizedValidTitle =>
          /\ TitleSanitize(output.result) = output.result
                <=> ~HasSpecial(input.str)
          /\ ~HasSpecial(input.str) => output.result = input.str
    /\ SanitizedValidDescription =>
          /\ DescriptionSanitize(output.result) = output.result
                <=> ~HasSpecial(input.str)
          /\ ~HasSpecial(input.str) => output.result = input.str

\* a valid title holding an escaped character has been sanitized
C9_Witness ==
    /\ SanitizedValidTitle
    /\ HasSpecial(input.str)
    /\ Len(output.result) > Len(input.str)

(***************************************************************************)
(* Properties of the due-date strategy (specification SpecDueDate).        *)
(***************************************************************************)
\* C10: under every time of day and every local offset, the date-only string
\* of the current local calendar day is valid, and that of the previous day
\* is invalid with "Due date must be today or in the future".
C10_DueDateBoundary ==
    output.op = "dueDate.validate" =>
        /\ input = DateStr(LocalDay(now, tz)) => output.result.isValid
        /\ input = DateStr(LocalDay(now, tz) - 1) =>
              /\ ~output.result.isValid
              /\ output.result.errors =
                    <<"Due date must be today or in the future">>

====
